---- MODULE Spec2Model ----
(***************************************************************************)
(* The UART command console of Core/Src/CommandLineInterface.c: the worker *)
(* task prvUARTCommandConsoleTask, the paced transmitter prvSendBuffer,    *)
(* the two HAL completion callbacks, the UART they talk to, and the two    *)
(* echo commands with their static parameter cursors.                      *)
(*                                                                         *)
(* Characters are byte values (CR = 13, 'a' = 97, NUL = 0).  A buffer is a *)
(* function from 0 .. cmdMAX_INPUT_SIZE-1 to bytes, as the C array is.     *)
(* The worker is one process whose position is pc; it is split at the      *)
(* points where it calls the transport or blocks, because the interrupt    *)
(* context (CharArrives, TxComplete) runs between those points.            *)
(***************************************************************************)
EXTENDS Integers, Sequences, FiniteSets, TLC

\* Size of cInputString and cLastInputString.  The source sets 50; the model
\* is parametric in it and is checked with a small value so that every line
\* content up to and beyond the capacity is enumerated.
cmdMAX_INPUT_SIZE == 2

\* Largest number of times the interpreter answers "more output" for one line.
MaxMore == 1

\* Largest number of parameters of a line dispatched to an echo command.
MaxParams == 3

cmdASCII_DEL == 127

CR == 13

LF == 10

BS == 8

SPACE == 32

TILDE == 126

\* The bytes the environment may send: the two terminators, the two erase
\* keys, two printable characters that differ only in case ('a', 'A'), and
\* one other control character (BEL).
InputChars == {CR, LF, BS, cmdASCII_DEL, 97, 65, 7}

\* What the interpreter may leave in the output buffer: the empty string or
\* a one-character string.
Chunks == {<< >>, <<88>>}

\* What a string read finds behind the end of a buffer that holds no NUL:
\* the next byte is NUL, or one more character precedes the NUL.
Junk == {<< >>, <<97>>}

pcWelcomeMessage == "\r\n\r\nFreeRTOS command server.\r\nType Help to view a list of registered commands.\r\n\r\n>"

pcEndOfOutputMessage == "\r\n[Press ENTER to execute the previous command again]\r\n>"

pcNewLine == "\r\n"

VARIABLES
    pc,                     \* position of prvUARTCommandConsoleTask
    blocked,                \* TRUE while inside prvSendBuffer's xSemaphoreTake
    cRxedChar,              \* the one-character receive and echo buffer
    ucInputIndex,           \* length of the line typed so far
    cInputString,           \* InputLine
    cLastInputString,       \* LastCommandLine
    pcOutputString,         \* content of the interpreter's output buffer
    xReturned,              \* the interpreter's last answer (TRUE = more)
    xTxCompleteSemaphore,   \* 0 = empty, 1 = given
    xRxCompleteSemaphore,
    rxArmed,                \* UART: a one-character receive is armed
    txBuf,                  \* UART: the buffer being transmitted, or "none"
    \* ---- observers (written, never read, by the program) ----
    rxStored,               \* characters stored in cRxedChar since the last Rx take
    rxTaken,                \* what rxStored was at the last Rx take
    accepted,               \* the line as the user sees it after editing
    line,                   \* the string the interpreter last read
    lastLine,               \* the string the previous dispatch read
    overfull,               \* a printable character was dropped from this line
    prevTerm,               \* the terminator, if the character processed before
                            \* this one was one, else 0
    nCalls,                 \* interpreter calls in this dispatch (0 outside one)
    nTrue,                  \* of which answered "more"
    nHanded,                \* chunks passed to prvSendBuffer in this dispatch
    nTx,                    \* chunk transmits requested of the UART
    nNonEmpty,              \* interpreter calls that left a non-empty chunk
    oobRead,                \* since the receive was armed, a string read ran past
                            \* the end of a buffer
    oobWrite,               \* since then, a strcpy wrote past the end of a buffer
    reuse,                  \* a buffer was reused while its transmit was in flight
    timedOut,               \* a wait in prvSendBuffer has ended by timeout
    trace,                  \* transmit requests and edits since the receive was armed
    foreign,                \* a completion of another UART instance was reported
    \* ---- the echo commands ----
    lParameterNumber,       \* the static parameter cursor of each echo command
    pxCommand,              \* the command of the line being dispatched, or "none"
    pcCommandString,        \* the parameters of that line
    echoPc,                 \* "idle", "call" (in the do-while loop) or "end"
    echoLog,                \* chunk and answer of every call of this dispatch
    echoPrev                \* the same for the previous dispatch of this line

prog == <<pc, blocked, cRxedChar, ucInputIndex, cInputString, cLastInputString,
          pcOutputString, xReturned>>

sems == <<xTxCompleteSemaphore, xRxCompleteSemaphore>>

uart == <<rxArmed, txBuf>>

rxObs == <<rxStored, rxTaken>>

lineObs == <<accepted, overfull, line, lastLine, prevTerm>>

loopObs == <<nCalls, nTrue, nHanded, nTx, nNonEmpty>>

memObs == <<oobRead, oobWrite>>

\* The console: the worker, the signals, the UART and their observers
console == <<prog, sems, uart, rxObs, lineObs, loopObs, memObs, reuse, timedOut, trace>>

\* The echo commands and the lines dispatched to them
echo == <<lParameterNumber, pxCommand, pcCommandString, echoPc, echoLog, echoPrev>>

vars == <<console, foreign, echo>>

----------------------------------------------------------------------------
(* C strings in fixed-size buffers *)

BufIndex == 0 .. (cmdMAX_INPUT_SIZE - 1)

ZeroBuffer == [i \in BufIndex |-> 0]

HasNul(buf) == \E i \in BufIndex : buf[i] = 0

\* strlen of a buffer that holds a NUL
FirstNul(buf) == CHOOSE i \in BufIndex : buf[i] = 0 /\ \A j \in 0 .. (i - 1) : buf[j] # 0

\* The string a C string function reads at buf.  Without a NUL inside the
\* buffer the read continues into the memory behind it, which holds junk.
ReadString(buf, junk) ==
    IF HasNul(buf)
    THEN [i \in 1 .. FirstNul(buf) |-> buf[i - 1]]
    ELSE [i \in 1 .. cmdMAX_INPUT_SIZE |-> buf[i - 1]] \o junk

\* strcpy(dst, s): the part of the copy that lands inside dst
strcpy(dst, s) ==
    [i \in BufIndex |-> IF i < Len(s) THEN s[i + 1] ELSE IF i = Len(s) THEN 0 ELSE dst[i]]

\* strcpy(dst, s) writes Len(s)+1 bytes
Overflows(s) == Len(s) + 1 > cmdMAX_INPUT_SIZE

----------------------------------------------------------------------------
(* The line editor, lines 399 and 433-454 *)

\* "Was it the end of the line?"
IsEndOfLine(c) == c = LF \/ c = CR

\* EditLine without the test for an empty line in the erase branch:
\* ucInputIndex is a uint8_t and wraps
EditLine_NoEmptyTest(c, idx, buf) ==
    IF c = CR
    THEN <<idx, buf>>
    ELSE IF c = BS \/ c = cmdASCII_DEL
    THEN <<(idx - 1) % 256, [i \in BufIndex |-> IF i = (idx - 1) % 256 THEN 0 ELSE buf[i]]>>
    ELSE IF c >= SPACE /\ c <= TILDE
    THEN IF idx < cmdMAX_INPUT_SIZE
         THEN <<idx + 1, [buf EXCEPT ![idx] = c]>>
         ELSE <<idx, buf>>
    ELSE <<idx, buf>>

\* EditLine without the test for a full line in the append branch
EditLine_NoCapacityTest(c, idx, buf) ==
    IF c = CR
    THEN <<idx, buf>>
    ELSE IF c = BS \/ c = cmdASCII_DEL
    THEN IF idx > 0
         THEN <<idx - 1, [buf EXCEPT ![idx - 1] = 0]>>
         ELSE <<idx, buf>>
    ELSE IF c >= SPACE /\ c <= TILDE
    THEN <<(idx + 1) % 256, [i \in BufIndex |-> IF i = idx THEN c ELSE buf[i]]>>
    ELSE <<idx, buf>>

\* EditLine without the test for a printable character in the append branch
EditLine_NoPrintableTest(c, idx, buf) ==
    IF c = CR
    THEN <<idx, buf>>
    ELSE IF c = BS \/ c = cmdASCII_DEL
    THEN IF idx > 0
         THEN <<idx - 1, [buf EXCEPT ![idx - 1] = 0]>>
         ELSE <<idx, buf>>
    ELSE IF idx < cmdMAX_INPUT_SIZE
    THEN <<idx + 1, [buf EXCEPT ![idx] = c]>>
    ELSE <<idx, buf>>

\* EditLine with an erase branch that only steps the index back
EditLine_NoClear(c, idx, buf) ==
    IF c = CR
    THEN <<idx, buf>>
    ELSE IF c = BS \/ c = cmdASCII_DEL
    THEN IF idx > 0
         THEN <<idx - 1, buf>>
         ELSE <<idx, buf>>
    ELSE IF c >= SPACE /\ c <= TILDE
    THEN IF idx < cmdMAX_INPUT_SIZE
         THEN <<idx + 1, [buf EXCEPT ![idx] = c]>>
         ELSE <<idx, buf>>
    ELSE <<idx, buf>>

\* The else branch of the end-of-line test: what one received character does
\* to the line.  Gives the new <<ucInputIndex, cInputString>>.
EditLine(c, idx, buf) ==
    IF c = CR
    THEN <<idx, buf>>
    ELSE IF c = BS \/ c = cmdASCII_DEL
    THEN IF idx > 0
         THEN <<idx - 1, [buf EXCEPT ![idx - 1] = 0]>>
         ELSE <<idx, buf>>
    ELSE IF c >= SPACE /\ c <= TILDE
    THEN IF idx < cmdMAX_INPUT_SIZE
         THEN <<idx + 1, [buf EXCEPT ![idx] = c]>>
         ELSE <<idx, buf>>
    ELSE <<idx, buf>>

\* The same character applied to the line the user believes to have typed:
\* erase keys remove the last character, printable characters are added
\* while there is room.
EditAccepted(c, acc) ==
    IF c = BS \/ c = cmdASCII_DEL
    THEN IF Len(acc) > 0 THEN SubSeq(acc, 1, Len(acc) - 1) ELSE acc
    ELSE IF c >= SPACE /\ c <= TILDE /\ Len(acc) < cmdMAX_INPUT_SIZE
    THEN Append(acc, c)
    ELSE acc

----------------------------------------------------------------------------
(* The transport *)

\* HAL_UART_Transmit_IT: starts the transmit, or answers HAL_BUSY and does
\* nothing while an earlier transmit is still in flight.
HAL_UART_Transmit_IT(cur, buf) == IF cur = "none" THEN buf ELSE cur

\* HAL_UART_Receive_IT: arms the receive (a second call while armed answers
\* HAL_BUSY and changes nothing).
HAL_UART_Receive_IT(armed) == TRUE

\* vSemaphoreCreateBinary: the new semaphore is created given
vSemaphoreCreateBinary == 1

\* xSemaphoreTake with block time 0: takes the semaphore if it is given
xSemaphoreTakeNoWait(sem) == IF sem = 1 THEN 0 ELSE sem

\* xSemaphoreGiveFromISR on a binary semaphore
xSemaphoreGiveFromISR(sem) == 1

\* The Rx completion callback for the UART instance inst: new value of
\* xRxCompleteSemaphore.
HAL_UART_RxCpltCallback(inst, sem) ==
    IF inst = "USART3" THEN xSemaphoreGiveFromISR(sem) ELSE sem

\* The Tx completion callback without the test of the instance
HAL_UART_TxCpltCallback_AnyInstance(inst, sem) == xSemaphoreGiveFromISR(sem)

\* The Tx completion callback: new value of xTxCompleteSemaphore.
HAL_UART_TxCpltCallback(inst, sem) ==
    IF inst = "USART3" THEN xSemaphoreGiveFromISR(sem) ELSE sem

----------------------------------------------------------------------------
(* prvSendBuffer and its call sites *)

SendSites == {"welcome", "echo", "newline", "chunk", "trailer"}

\* The buffer each call site passes
SendBuffer(site) ==
    CASE site = "welcome" -> "pcWelcomeMessage"
      [] site = "echo"    -> "cRxedChar"
      [] site = "newline" -> "pcNewLine"
      [] site = "chunk"   -> "pcOutputString"
      [] site = "trailer" -> "pcEndOfOutputMessage"

\* The length each call site passes: strlen of the message, or sizeof(char)
SendLength(site) ==
    CASE site = "welcome" -> Len(pcWelcomeMessage)
      [] site = "echo"    -> 1
      [] site = "newline" -> Len(pcNewLine)
      [] site = "chunk"   -> Len(pcOutputString)
      [] site = "trailer" -> Len(pcEndOfOutputMessage)

\* Where the task continues when the call returns
AfterSend(site) ==
    CASE site = "welcome" -> "arm"
      [] site = "echo"    -> "process"
      [] site = "newline" -> "repeat"
      [] site = "chunk"   -> "loop"
      [] site = "trailer" -> "arm"

\* The buffers the program writes again later
Reusable == {"pcOutputString", "cRxedChar"}

\* The test on xBufferLength, without the test
MustTransmit_Always(len) == len >= 0

\* The test on xBufferLength
MustTransmit(len) == len > 0

----------------------------------------------------------------------------
(* The echo commands, lines 98-116 and 160-290 *)

EchoCommands == {"echo-3-parameters", "echo-parameters"}

\* The words a parameter may be
ParamWords == {"a", "b"}

\* The parameter lists of the lines dispatched to an echo command
ParamLists == UNION {[1 .. n -> ParamWords] : n \in 0 .. MaxParams}

\* The number of parameters the command is registered with (-1: any number)
cExpectedNumberOfParameters(cmd) == IF cmd = "echo-3-parameters" THEN 3 ELSE 0 - 1

\* FreeRTOS_CLIGetParameter: the n-th parameter of the line (n counts from
\* 1), or "NULL" when the line has fewer.
FreeRTOS_CLIGetParameter(params, n) ==
    IF n >= 1 /\ n <= Len(params) THEN params[n] ELSE "NULL"

\* prvParameterEchoCommand without "Start over the next time this command
\* is executed"
prvParameterEchoCommand_NoStartOver(lPN, params) ==
    IF lPN = 0
    THEN [pcWriteBuffer |-> <<"The parameters were:">>, xReturn |-> TRUE,
          lParameterNumber |-> 1]
    ELSE IF FreeRTOS_CLIGetParameter(params, lPN) # "NULL"
    THEN [pcWriteBuffer |-> <<lPN, FreeRTOS_CLIGetParameter(params, lPN)>>,
          xReturn |-> TRUE, lParameterNumber |-> lPN + 1]
    ELSE [pcWriteBuffer |-> << >>, xReturn |-> FALSE, lParameterNumber |-> lPN]

\* prvParameterEchoCommand, called with the cursor at lPN for a line with
\* the parameters params: what it leaves in the write buffer, what it
\* returns, and the new cursor.
prvParameterEchoCommand(lPN, params) ==
    IF lPN = 0
    THEN [pcWriteBuffer |-> <<"The parameters were:">>, xReturn |-> TRUE,
          lParameterNumber |-> 1]
    ELSE IF FreeRTOS_CLIGetParameter(params, lPN) # "NULL"
    THEN [pcWriteBuffer |-> <<lPN, FreeRTOS_CLIGetParameter(params, lPN)>>,
          xReturn |-> TRUE, lParameterNumber |-> lPN + 1]
    ELSE [pcWriteBuffer |-> << >>, xReturn |-> FALSE, lParameterNumber |-> 0]

\* prvThreeParameterEchoCommand, the same way.  It ends at the third
\* parameter.
prvThreeParameterEchoCommand(lPN, params) ==
    IF lPN = 0
    THEN [pcWriteBuffer |-> <<"The three parameters were:">>, xReturn |-> TRUE,
          lParameterNumber |-> 1]
    ELSE IF lPN = 3
    THEN [pcWriteBuffer |-> <<lPN, FreeRTOS_CLIGetParameter(params, lPN)>>,
          xReturn |-> FALSE, lParameterNumber |-> 0]
    ELSE [pcWriteBuffer |-> <<lPN, FreeRTOS_CLIGetParameter(params, lPN)>>,
          xReturn |-> TRUE, lParameterNumber |-> lPN + 1]

\* pxCommandLineDefinition->pxCommandInterpreter: the handler of a command
pxCommandInterpreter(cmd, lPN, params) ==
    IF cmd = "echo-3-parameters"
    THEN prvThreeParameterEchoCommand(lPN, params)
    ELSE prvParameterEchoCommand(lPN, params)

----------------------------------------------------------------------------
(* Initial state: statics are zero, nothing is armed or in flight, the     *)
(* task has not run yet.                                                   *)

Init ==
    /\ pc = "start"
    /\ blocked = FALSE
    /\ cRxedChar = 0
    /\ ucInputIndex = 0
    /\ cInputString = ZeroBuffer
    /\ cLastInputString = ZeroBuffer
    /\ pcOutputString = << >>
    /\ xReturned = FALSE
    /\ xTxCompleteSemaphore = 0
    /\ xRxCompleteSemaphore = 0
    /\ rxArmed = FALSE
    /\ txBuf = "none"
    /\ rxStored = 0
    /\ rxTaken = 0
    /\ accepted = << >>
    /\ overfull = FALSE
    /\ line = << >>
    /\ lastLine = << >>
    /\ prevTerm = 0
    /\ nCalls = 0
    /\ nTrue = 0
    /\ nHanded = 0
    /\ nTx = 0
    /\ nNonEmpty = 0
    /\ oobRead = FALSE
    /\ oobWrite = FALSE
    /\ reuse = FALSE
    /\ timedOut = FALSE
    /\ trace = << >>
    /\ foreign = FALSE
    /\ lParameterNumber = [c \in EchoCommands |-> 0]
    /\ pxCommand = "none"
    /\ pcCommandString = << >>
    /\ echoPc = "idle"
    /\ echoLog = << >>
    /\ echoPrev = << >>

----------------------------------------------------------------------------
(* The worker, prvUARTCommandConsoleTask *)

\* Lines 365-384: both semaphores are created (vSemaphoreCreateBinary leaves
\* a new semaphore given) and taken with no block time.
TaskStart ==
    /\ pc = "start"
    /\ xTxCompleteSemaphore' = xSemaphoreTakeNoWait(vSemaphoreCreateBinary)
    /\ xRxCompleteSemaphore' = xSemaphoreTakeNoWait(vSemaphoreCreateBinary)
    /\ pc' = "welcome"
    /\ UNCHANGED <<blocked, cRxedChar, ucInputIndex, cInputString, cLastInputString,
                   pcOutputString, xReturned>>
    /\ UNCHANGED <<uart, rxObs, lineObs, loopObs, memObs, reuse, timedOut, trace>>
    /\ UNCHANGED <<foreign, echo>>

\* prvSendBuffer without the wait for the Tx signal: the transmit is
\* requested and the call returns.
prvSendBuffer_NoWait(site) ==
    /\ pc = site
    /\ ~blocked
    /\ pc' = AfterSend(site)
    /\ IF MustTransmit(SendLength(site))
       THEN /\ txBuf' = HAL_UART_Transmit_IT(txBuf, SendBuffer(site))
            /\ reuse' = (reuse \/ (txBuf = SendBuffer(site) /\ SendBuffer(site) \in Reusable))
            /\ trace' = Append(trace, <<site, IF site = "chunk" THEN nCalls ELSE 0>>)
            /\ nTx' = IF site = "chunk" THEN nTx + 1 ELSE nTx
       ELSE UNCHANGED <<txBuf, reuse, trace, nTx>>
    /\ nHanded' = IF site = "chunk" THEN nHanded + 1 ELSE nHanded
    /\ UNCHANGED <<blocked, cRxedChar, ucInputIndex, cInputString, cLastInputString,
                   pcOutputString, xReturned>>
    /\ UNCHANGED <<sems, rxArmed, rxObs, lineObs, nCalls, nTrue, nNonEmpty,
                   memObs, timedOut>>
    /\ UNCHANGED <<foreign, echo>>

\* prvSendBuffer up to its xSemaphoreTake, called at `site`: with a length
\* above 0 the transmit is requested and the task goes on to wait; with
\* length 0 the call returns at once.
prvSendBuffer(site) ==
    /\ pc = site
    /\ ~blocked
    /\ IF MustTransmit(SendLength(site))
       THEN /\ txBuf' = HAL_UART_Transmit_IT(txBuf, SendBuffer(site))
            /\ blocked' = TRUE
            /\ pc' = pc
            /\ reuse' = (reuse \/ (txBuf = SendBuffer(site) /\ SendBuffer(site) \in Reusable))
            /\ trace' = Append(trace, <<site, IF site = "chunk" THEN nCalls ELSE 0>>)
            /\ nTx' = IF site = "chunk" THEN nTx + 1 ELSE nTx
       ELSE /\ pc' = AfterSend(site)
            /\ UNCHANGED <<txBuf, blocked, reuse, trace, nTx>>
    /\ nHanded' = IF site = "chunk" THEN nHanded + 1 ELSE nHanded
    /\ UNCHANGED <<cRxedChar, ucInputIndex, cInputString, cLastInputString,
                   pcOutputString, xReturned>>
    /\ UNCHANGED <<sems, rxArmed, rxObs, lineObs, nCalls, nTrue, nNonEmpty,
                   memObs, timedOut>>
    /\ UNCHANGED <<foreign, echo>>

\* A wait for the Tx signal with no timeout (portMAX_DELAY)
TxWaitForever == FALSE

\* Whether the wait of prvSendBuffer can end without the signal: it is
\* bounded by xBlockMax100ms.
TxWaitIsBounded == TRUE

\* Line 352, the signal is there: it is taken and prvSendBuffer returns.
SendTake ==
    /\ pc \in SendSites
    /\ blocked
    /\ xTxCompleteSemaphore = 1
    /\ xTxCompleteSemaphore' = 0
    /\ blocked' = FALSE
    /\ pc' = AfterSend(pc)
    /\ UNCHANGED <<cRxedChar, ucInputIndex, cInputString, cLastInputString,
                   pcOutputString, xReturned>>
    /\ UNCHANGED <<xRxCompleteSemaphore, uart, rxObs, lineObs, loopObs, memObs,
                   reuse, timedOut, trace>>
    /\ UNCHANGED <<foreign, echo>>

\* Line 352, 100 ms pass without the signal: prvSendBuffer returns all the
\* same, the result of xSemaphoreTake is not looked at.
SendTimeout ==
    /\ pc \in SendSites
    /\ blocked
    /\ TxWaitIsBounded
    /\ xTxCompleteSemaphore = 0
    /\ blocked' = FALSE
    /\ pc' = AfterSend(pc)
    /\ timedOut' = TRUE
    /\ UNCHANGED <<cRxedChar, ucInputIndex, cInputString, cLastInputString,
                   pcOutputString, xReturned>>
    /\ UNCHANGED <<sems, uart, rxObs, lineObs, loopObs, memObs, reuse, trace>>
    /\ UNCHANGED <<foreign, echo>>

\* Line 393: arm the receive of one character into cRxedChar.
ArmReceive ==
    /\ pc = "arm"
    /\ rxArmed' = HAL_UART_Receive_IT(rxArmed)
    /\ pc' = "waitRx"
    /\ reuse' = (reuse \/ txBuf = "cRxedChar")
    /\ trace' = << >>
    /\ oobRead' = FALSE
    /\ oobWrite' = FALSE
    /\ UNCHANGED <<blocked, cRxedChar, ucInputIndex, cInputString, cLastInputString,
                   pcOutputString, xReturned>>
    /\ UNCHANGED <<sems, txBuf, rxObs, lineObs, loopObs, timedOut>>
    /\ UNCHANGED <<foreign, echo>>

\* RxTake without the echo: the character is processed as soon as the Rx
\* signal is taken
RxTake_NoEcho ==
    /\ pc = "waitRx"
    /\ xRxCompleteSemaphore = 1
    /\ xRxCompleteSemaphore' = 0
    /\ pc' = "process"
    /\ rxTaken' = rxStored
    /\ rxStored' = 0
    /\ UNCHANGED <<blocked, cRxedChar, ucInputIndex, cInputString, cLastInputString,
                   pcOutputString, xReturned>>
    /\ UNCHANGED <<xTxCompleteSemaphore, uart, lineObs, loopObs, memObs, reuse,
                   timedOut, trace>>
    /\ UNCHANGED <<foreign, echo>>

\* RxTake that looks at the Rx signal and leaves it given
RxTake_Peek ==
    /\ pc = "waitRx"
    /\ xRxCompleteSemaphore = 1
    /\ xRxCompleteSemaphore' = xRxCompleteSemaphore
    /\ pc' = "echo"
    /\ rxTaken' = rxStored
    /\ rxStored' = 0
    /\ UNCHANGED <<blocked, cRxedChar, ucInputIndex, cInputString, cLastInputString,
                   pcOutputString, xReturned>>
    /\ UNCHANGED <<xTxCompleteSemaphore, uart, lineObs, loopObs, memObs, reuse,
                   timedOut, trace>>
    /\ UNCHANGED <<foreign, echo>>

\* Line 394: the task blocks until the Rx signal is given, and takes it.
RxTake ==
    /\ pc = "waitRx"
    /\ xRxCompleteSemaphore = 1
    /\ xRxCompleteSemaphore' = 0
    /\ pc' = "echo"
    /\ rxTaken' = rxStored
    /\ rxStored' = 0
    /\ UNCHANGED <<blocked, cRxedChar, ucInputIndex, cInputString, cLastInputString,
                   pcOutputString, xReturned>>
    /\ UNCHANGED <<xTxCompleteSemaphore, uart, lineObs, loopObs, memObs, reuse,
                   timedOut, trace>>
    /\ UNCHANGED <<foreign, echo>>

\* ProcessChar without the blank line that spaces the output from the input
ProcessChar_NoSeparator ==
    /\ pc = "process"
    /\ IF IsEndOfLine(cRxedChar)
       THEN /\ pc' = "repeat"
            /\ UNCHANGED <<ucInputIndex, cInputString, accepted, overfull, prevTerm, trace>>
       ELSE /\ pc' = "arm"
            /\ ucInputIndex' = EditLine(cRxedChar, ucInputIndex, cInputString)[1]
            /\ cInputString' = EditLine(cRxedChar, ucInputIndex, cInputString)[2]
            /\ accepted' = EditAccepted(cRxedChar, accepted)
            /\ overfull' = (overfull \/ (cRxedChar >= SPACE /\ cRxedChar <= TILDE
                                          /\ Len(accepted) = cmdMAX_INPUT_SIZE))
            /\ prevTerm' = 0
            /\ trace' = Append(trace, <<"edit", 0>>)
    /\ UNCHANGED <<blocked, cRxedChar, cLastInputString, pcOutputString, xReturned>>
    /\ UNCHANGED <<sems, uart, rxObs, line, lastLine, loopObs, memObs, reuse, timedOut>>
    /\ UNCHANGED <<foreign, echo>>

\* Lines 399 and 433-454, after the echo: a terminator starts the handling
\* of the line, any other character edits the line and the loop starts over.
ProcessChar ==
    /\ pc = "process"
    /\ IF IsEndOfLine(cRxedChar)
       THEN /\ pc' = "newline"
            /\ UNCHANGED <<ucInputIndex, cInputString, accepted, overfull, prevTerm, trace>>
       ELSE /\ pc' = "arm"
            /\ ucInputIndex' = EditLine(cRxedChar, ucInputIndex, cInputString)[1]
            /\ cInputString' = EditLine(cRxedChar, ucInputIndex, cInputString)[2]
            /\ accepted' = EditAccepted(cRxedChar, accepted)
            /\ overfull' = (overfull \/ (cRxedChar >= SPACE /\ cRxedChar <= TILDE
                                          /\ Len(accepted) = cmdMAX_INPUT_SIZE))
            /\ prevTerm' = 0
            /\ trace' = Append(trace, <<"edit", 0>>)
    /\ UNCHANGED <<blocked, cRxedChar, cLastInputString, pcOutputString, xReturned>>
    /\ UNCHANGED <<sems, uart, rxObs, line, lastLine, loopObs, memObs, reuse, timedOut>>
    /\ UNCHANGED <<foreign, echo>>

\* Lines 405-408: an empty line stands for the last command, which is
\* copied back into the input string.
RepeatCheck ==
    /\ pc = "repeat"
    /\ \E junk \in Junk :
         LET s == ReadString(cLastInputString, junk) IN
         IF ucInputIndex = 0
         THEN /\ cInputString' = strcpy(cInputString, s)
              /\ oobRead' = (oobRead \/ ~HasNul(cLastInputString))
              /\ oobWrite' = (oobWrite \/ Overflows(s))
         ELSE UNCHANGED <<cInputString, oobRead, oobWrite>>
    /\ pc' = "interpret"
    /\ UNCHANGED <<blocked, cRxedChar, ucInputIndex, cLastInputString, pcOutputString,
                   xReturned>>
    /\ UNCHANGED <<sems, uart, rxObs, lineObs, loopObs, reuse, timedOut, trace>>
    /\ UNCHANGED <<foreign, echo>>

\* Lines 416-417: FreeRTOS_CLIProcessCommand reads the line at cInputString
\* as a string, leaves one chunk in the output buffer and answers whether
\* more is to come.  It answers "more" at most MaxMore times for one line.
InterpretCall ==
    /\ pc = "interpret"
    /\ \E chunk \in Chunks, more \in BOOLEAN, junk \in Junk :
         /\ more => nTrue < MaxMore
         /\ line' = ReadString(cInputString, junk)
         /\ pcOutputString' = chunk
         /\ xReturned' = more
         /\ nTrue' = IF more THEN nTrue + 1 ELSE nTrue
         /\ nNonEmpty' = IF chunk # << >> THEN nNonEmpty + 1 ELSE nNonEmpty
    /\ oobRead' = (oobRead \/ ~HasNul(cInputString))
    /\ nCalls' = nCalls + 1
    /\ reuse' = (reuse \/ txBuf = "pcOutputString")
    /\ pc' = "chunk"
    /\ UNCHANGED <<blocked, cRxedChar, ucInputIndex, cInputString, cLastInputString>>
    /\ UNCHANGED <<sems, uart, rxObs, accepted, overfull, lastLine, prevTerm,
                   nHanded, nTx, oobWrite, timedOut, trace>>
    /\ UNCHANGED <<foreign, echo>>

\* The loop test inverted: while( xReturned == pdFALSE )
LoopTest_Inverted ==
    /\ pc = "loop"
    /\ pc' = IF ~xReturned /\ nCalls <= MaxMore THEN "interpret" ELSE "remember"
    /\ UNCHANGED <<blocked, cRxedChar, ucInputIndex, cInputString, cLastInputString,
                   pcOutputString, xReturned>>
    /\ UNCHANGED <<sems, uart, rxObs, lineObs, loopObs, memObs, reuse, timedOut, trace>>
    /\ UNCHANGED <<foreign, echo>>

\* Line 422: while( xReturned != pdFALSE )
LoopTest ==
    /\ pc = "loop"
    /\ pc' = IF xReturned THEN "interpret" ELSE "remember"
    /\ UNCHANGED <<blocked, cRxedChar, ucInputIndex, cInputString, cLastInputString,
                   pcOutputString, xReturned>>
    /\ UNCHANGED <<sems, uart, rxObs, lineObs, loopObs, memObs, reuse, timedOut, trace>>
    /\ UNCHANGED <<foreign, echo>>

\* Lines 428-430: remember the command, clear the input string.
Remember ==
    /\ pc = "remember"
    /\ \E junk \in Junk :
         LET s == ReadString(cInputString, junk) IN
         /\ cLastInputString' = strcpy(cLastInputString, s)
         /\ oobWrite' = (oobWrite \/ Overflows(s))
    /\ oobRead' = (oobRead \/ ~HasNul(cInputString))
    /\ ucInputIndex' = 0
    /\ cInputString' = ZeroBuffer
    /\ lastLine' = line
    /\ accepted' = << >>
    /\ overfull' = FALSE
    /\ prevTerm' = cRxedChar
    /\ pc' = "trailer"
    /\ nCalls' = 0
    /\ nTrue' = 0
    /\ nHanded' = 0
    /\ nTx' = 0
    /\ nNonEmpty' = 0
    /\ UNCHANGED <<blocked, cRxedChar, pcOutputString, xReturned>>
    /\ UNCHANGED <<sems, uart, rxObs, line, reuse, timedOut, trace>>
    /\ UNCHANGED <<foreign, echo>>

Worker ==
    \/ TaskStart
    \/ \E site \in SendSites : prvSendBuffer(site)
    \/ SendTake
    \/ SendTimeout
    \/ ArmReceive
    \/ RxTake
    \/ ProcessChar
    \/ RepeatCheck
    \/ InterpretCall
    \/ LoopTest
    \/ Remember

----------------------------------------------------------------------------
(* The interrupt context *)

\* Receive with the next receive armed from the completion callback
Receive_Rearm(c) ==
    /\ IF rxArmed
       THEN /\ cRxedChar' = c
            /\ rxArmed' = TRUE
            /\ rxStored' = IF rxStored < 2 THEN rxStored + 1 ELSE rxStored
            /\ xRxCompleteSemaphore' = HAL_UART_RxCpltCallback("USART3", xRxCompleteSemaphore)
            /\ reuse' = (reuse \/ txBuf = "cRxedChar")
       ELSE UNCHANGED <<cRxedChar, rxArmed, rxStored, xRxCompleteSemaphore, reuse>>
    /\ UNCHANGED <<pc, blocked, ucInputIndex, cInputString, cLastInputString,
                   pcOutputString, xReturned>>
    /\ UNCHANGED <<xTxCompleteSemaphore, txBuf, rxTaken, lineObs, loopObs,
                   memObs, timedOut, trace>>
    /\ UNCHANGED <<foreign, echo>>

\* The character c arrives on the wire.  With a receive armed the UART stores
\* it in cRxedChar, the receive is complete and HAL_UART_RxCpltCallback
\* runs; with no receive armed the character is lost.
Receive(c) ==
    /\ IF rxArmed
       THEN /\ cRxedChar' = c
            /\ rxArmed' = FALSE
            /\ rxStored' = IF rxStored < 2 THEN rxStored + 1 ELSE rxStored
            /\ xRxCompleteSemaphore' = HAL_UART_RxCpltCallback("USART3", xRxCompleteSemaphore)
            /\ reuse' = (reuse \/ txBuf = "cRxedChar")
       ELSE UNCHANGED <<cRxedChar, rxArmed, rxStored, xRxCompleteSemaphore, reuse>>
    /\ UNCHANGED <<pc, blocked, ucInputIndex, cInputString, cLastInputString,
                   pcOutputString, xReturned>>
    /\ UNCHANGED <<xTxCompleteSemaphore, txBuf, rxTaken, lineObs, loopObs,
                   memObs, timedOut, trace>>
    /\ UNCHANGED <<foreign, echo>>

\* The transmit in flight completes and HAL_UART_TxCpltCallback runs.
TxComplete ==
    /\ txBuf # "none"
    /\ txBuf' = "none"
    /\ xTxCompleteSemaphore' = HAL_UART_TxCpltCallback("USART3", xTxCompleteSemaphore)
    /\ UNCHANGED <<prog, xRxCompleteSemaphore, rxArmed, rxObs, lineObs, loopObs,
                   memObs, reuse, timedOut, trace>>
    /\ UNCHANGED <<foreign, echo>>

\* Any of the input characters may be the next on the wire.
CharArrives == \E c \in InputChars : Receive(c)

Next ==
    \/ Worker
    \/ CharArrives
    \/ TxComplete

Spec == Init /\ [][Next]_vars

\* The same program on a smaller input alphabet (a terminator, an erase key
\* and one printable character), for the properties of the transmit and
\* receive protocol that do not depend on what the line holds.
PacingChars == {CR, BS, 97}

PacingCharArrives == \E c \in PacingChars : Receive(c)

PacingNext ==
    \/ Worker
    \/ PacingCharArrives
    \/ TxComplete

PacingSpec == Init /\ [][PacingNext]_vars

\* The progress specification.  The scheduler runs the worker whenever it
\* can take a step; nothing is promised about the wire or about transmit
\* completions.
LiveSpec == Init /\ [][PacingNext]_vars /\ WF_vars(Worker)

\* The UARTs of the device other than the console's
OtherInstances == {"USART1", "USART2"}

\* A receive or a transmit of another UART completes: the HAL runs the same
\* completion callback, with that UART's handle.
ForeignCompletion ==
    /\ \E inst \in OtherInstances, dir \in {"Rx", "Tx"} :
         /\ xRxCompleteSemaphore' =
                IF dir = "Rx" THEN HAL_UART_RxCpltCallback(inst, xRxCompleteSemaphore)
                ELSE xRxCompleteSemaphore
         /\ xTxCompleteSemaphore' =
                IF dir = "Tx" THEN HAL_UART_TxCpltCallback(inst, xTxCompleteSemaphore)
                ELSE xTxCompleteSemaphore
    /\ foreign' = TRUE
    /\ UNCHANGED <<prog, uart, rxObs, lineObs, loopObs, memObs, reuse, timedOut, trace>>
    /\ UNCHANGED echo

\* The console on a device whose other UARTs are in use as well.
IrqNext ==
    \/ Worker
    \/ PacingCharArrives
    \/ TxComplete
    \/ ForeignCompletion

IrqSpec == Init /\ [][IrqNext]_vars

\* The input alphabet for the properties of the line editor: a terminator,
\* both erase keys, one printable character, and two characters that are
\* neither (BEL below the printable range, 0xC8 above it).
EditChars == {CR, BS, cmdASCII_DEL, 97, 7, 200}

EditCharArrives == \E c \in EditChars : Receive(c)

EditNext ==
    \/ Worker
    \/ EditCharArrives
    \/ TxComplete

EditSpec == Init /\ [][EditNext]_vars

----------------------------------------------------------------------------
(* Lines dispatched to the echo commands *)

\* A line that names an echo command is dispatched.  The interpreter calls
\* the handler of a command only with the number of parameters the command
\* is registered with.
EchoDispatch ==
    /\ echoPc \in {"idle", "end"}
    /\ \E cmd \in EchoCommands, params \in ParamLists :
         /\ cExpectedNumberOfParameters(cmd) >= 0 =>
                Len(params) = cExpectedNumberOfParameters(cmd)
         /\ pxCommand' = cmd
         /\ pcCommandString' = params
    /\ echoPc' = "call"
    /\ echoLog' = << >>
    /\ echoPrev' = << >>
    /\ UNCHANGED <<lParameterNumber, console, foreign>>

\* An empty line: the line dispatched last is dispatched again.
EchoRepeat ==
    /\ echoPc = "end"
    /\ echoPc' = "call"
    /\ echoPrev' = echoLog
    /\ echoLog' = << >>
    /\ UNCHANGED <<lParameterNumber, pxCommand, pcCommandString, console, foreign>>

\* One pass of the do-while loop: the handler is called and leaves a
\* chunk; the loop goes on while it answers "more".
EchoCall ==
    /\ echoPc = "call"
    /\ LET r == pxCommandInterpreter(pxCommand, lParameterNumber[pxCommand], pcCommandString) IN
         /\ lParameterNumber' = [lParameterNumber EXCEPT ![pxCommand] = r.lParameterNumber]
         /\ echoLog' = Append(echoLog, <<r.pcWriteBuffer, r.xReturn>>)
         /\ echoPc' = IF r.xReturn THEN "call" ELSE "end"
    /\ UNCHANGED <<pxCommand, pcCommandString, echoPrev, console, foreign>>

EchoNext ==
    \/ EchoDispatch
    \/ EchoRepeat
    \/ EchoCall

EchoSpec == Init /\ [][EchoNext]_vars

TypeOK ==
    /\ pc \in {"start", "arm", "waitRx", "process", "repeat", "interpret", "loop",
               "remember"} \cup SendSites
    /\ ucInputIndex \in 0 .. cmdMAX_INPUT_SIZE
    /\ xTxCompleteSemaphore \in {0, 1}
    /\ xRxCompleteSemaphore \in {0, 1}

----------------------------------------------------------------------------
(* Properties *)

\* The task is handling a complete line and the interpreter has read it.
LineRead == pc \in {"chunk", "loop", "remember"}

\* The task is between the end-of-line test and the end of the trailer.
InLineReady == pc \in {"newline", "repeat", "interpret", "chunk", "loop", "remember", "trailer"}

\* C1: when a line of 1 .. capacity accepted characters (after the erase
\* keys are applied) is ended by a terminator, the string the interpreter
\* reads at cInputString is exactly those characters, in order, case
\* preserved, without the terminator; a line of exactly capacity characters
\* included.
C1_DispatchedLineIsAcceptedLine ==
    (LineRead /\ Len(accepted) >= 1 /\ Len(accepted) <= cmdMAX_INPUT_SIZE)
        => line = accepted

\* C1, for lines shorter than the capacity, where the claim holds.
C1_ShortLineIsAcceptedLine ==
    (LineRead /\ Len(accepted) >= 1 /\ Len(accepted) < cmdMAX_INPUT_SIZE)
        => (line = accepted /\ ~oobRead /\ ~oobWrite)

\* C2: a line of more than capacity printable characters is dispatched as
\* exactly its first capacity characters, and no step of the worker reads a
\* line past the end of, or writes outside, cInputString and cLastInputString.
C2_OverlongLineStaysInBounds ==
    /\ (LineRead /\ overfull /\ Len(accepted) = cmdMAX_INPUT_SIZE)
           => (Len(line) = cmdMAX_INPUT_SIZE /\ line = accepted)
    /\ ~oobRead
    /\ ~oobWrite

\* C3: a CR or LF right after the other terminator (the LF of CR LF, the CR
\* of LF CR) is ignored: it starts no handling of a line, so the pair typed
\* after a non-empty line causes one dispatch and no repeat.
C3_SecondTerminatorIgnored ==
    (InLineReady /\ pc # "trailer" /\ lastLine # << >>)
        => (prevTerm = 0 \/ prevTerm = cRxedChar)

\* C6: an empty line (a terminator at length 0) dispatches what the last
\* dispatch read, every time, and the empty string before any dispatch.
C6_EmptyLineRepeatsLastLine ==
    (LineRead /\ ucInputIndex = 0) => line = lastLine

\* C6, while no string operation has left a buffer, where the claim holds.
C6_RepeatWithinBounds ==
    (LineRead /\ ucInputIndex = 0 /\ ~oobRead /\ ~oobWrite) => line = lastLine

C5_OneReceiveInArrivalOrder ==
    /\ rxArmed => (pc = "waitRx" /\ xRxCompleteSemaphore = 0)
    /\ xRxCompleteSemaphore = 1 => (pc = "waitRx" /\ rxStored = 1)
    /\ rxStored <= 1
    /\ pc = "arm" => (~rxArmed /\ xRxCompleteSemaphore = 0 /\ rxStored = 0)
    /\ pc \notin {"start", "welcome", "arm", "waitRx"} => (rxTaken = 1 /\ rxStored = 0)

\* The second character of a line is being processed.
C5_Witness == pc = "process" /\ ucInputIndex = 1 /\ rxTaken = 1 /\ cRxedChar = 65

\* C7 as stated: a line for which the interpreter answers "more" N times
\* gets N+1 interpreter calls and N+1 transmits of a chunk on the transport.
C7_EveryChunkTransmitted ==
    pc = "remember" => (nCalls = nTrue + 1 /\ nTx = nCalls)

\* C7 as amended: N+1 interpreter calls, and after each call, before the
\* next, its chunk is passed to prvSendBuffer once; a transmit is requested
\* for each chunk that is not empty and for no empty one.
C7_OneSendPerCall ==
    /\ pc = "remember" => (nCalls = nTrue + 1 /\ nHanded = nCalls /\ nTx = nNonEmpty)
    /\ pc = "interpret" => (nCalls = nTrue /\ nHanded = nCalls /\ nTx = nNonEmpty)
    /\ (pc = "chunk" /\ ~blocked) => nHanded = nCalls - 1
    /\ ((pc = "chunk" /\ blocked) \/ pc = "loop") => (nHanded = nCalls /\ nTx = nNonEmpty)

\* The loop has ended after an answer "more", and the last chunk was empty.
C7_Witness ==
    pc = "remember" /\ nTrue >= 1 /\ nCalls = nTrue + 1 /\ pcOutputString = << >>
        /\ nTx < nCalls

\* C8: whatever the transport does, once the worker has taken an Rx signal
\* it arms a receive again and waits for the next Rx signal.
C8_WorkerReturnsToAwaitingChar == (pc = "echo") ~> (pc = "waitRx" /\ rxArmed)

\* The worker waits for the next character after a line whose transmit
\* never completed.
C8_Witness ==
    pc = "waitRx" /\ rxArmed /\ timedOut /\ txBuf # "none"
        /\ xTxCompleteSemaphore = 0 /\ lastLine # << >>

\* The transmit requests of one complete line: the echo, the separator, the
\* chunks in call order, and at the end the trailer if withTrailer.
LineShape(t, withTrailer) ==
    /\ Len(t) >= 2
    /\ t[1] = <<"echo", 0>>
    /\ t[2] = <<"newline", 0>>
    /\ \A i \in 3 .. Len(t) :
         \/ t[i][1] = "chunk" /\ t[i - 1][2] < t[i][2]
         \/ withTrailer /\ i = Len(t) /\ t[i] = <<"trailer", 0>>
    /\ withTrailer => t[Len(t)] = <<"trailer", 0>>

ChunkEntries(t) == {i \in 1 .. Len(t) : t[i][1] = "chunk"}

C10_ZeroLengthSendIsNoOp ==
    [][\A site \in SendSites :
         (pc = site /\ ~blocked /\ SendLength(site) = 0 /\ (pc' # pc \/ blocked' # blocked))
             => /\ pc' = AfterSend(site)
                /\ ~blocked'
                /\ UNCHANGED <<cRxedChar, ucInputIndex, cInputString, cLastInputString,
                               pcOutputString, xReturned, sems, uart>>
                /\ UNCHANGED <<nTx, timedOut, reuse, trace>>]_vars

\* An empty chunk has been passed to prvSendBuffer and no transmit was
\* requested for it.
C10_Witness ==
    pc = "loop" /\ pcOutputString = << >> /\ nHanded = nCalls /\ nTx = 0 /\ nCalls = 1
        /\ txBuf = "none" /\ xTxCompleteSemaphore = 0

\* The worker is about to apply the erase key (BS or DEL) it received.
EraseStep == pc = "process" /\ cRxedChar \in {BS, cmdASCII_DEL} /\ pc' # pc

\* C11: BS or DEL at a length above 0 takes the length down by one and
\* leaves the characters before the last one as they were; at length 0 the
\* length stays 0 (no wrap to 255) and the content of the line is unchanged.
C11_EraseRemovesLastChar ==
    [][EraseStep =>
         IF ucInputIndex > 0
         THEN /\ ucInputIndex' = ucInputIndex - 1
              /\ \A i \in BufIndex : i < ucInputIndex' => cInputString'[i] = cInputString[i]
         ELSE /\ ucInputIndex' = 0
              /\ cInputString' = cInputString]_vars

\* DEL has removed the second character of a line.
C11_Witness ==
    pc = "arm" /\ cRxedChar = cmdASCII_DEL /\ ucInputIndex = 1 /\ cInputString[0] = 97
        /\ cInputString[1] = 0 /\ accepted = <<97>>

\* The worker calls prvSendBuffer for the echo.
EchoCallStep == pc = "echo" /\ ~blocked /\ (pc' # pc \/ blocked' # blocked)

\* What C12 says of the call itself: the first thing the worker does after
\* the take of the Rx signal is one call of prvSendBuffer with cRxedChar and
\* length 1; nothing was requested of the UART since the receive was armed,
\* no receive is armed before the call returns, and the character is applied
\* to the line after exactly this one request.
C12_OneEchoCall ==
    /\ (pc = "waitRx" /\ pc' # pc) => (pc' = "echo" /\ ~blocked' /\ trace = << >>)
    /\ EchoCallStep =>
          /\ pc' = "echo" /\ blocked'
          /\ SendBuffer("echo") = "cRxedChar" /\ SendLength("echo") = 1
          /\ cRxedChar' = cRxedChar
          /\ trace = << >> /\ trace' = <<<<"echo", 0>>>>
          /\ ~rxArmed'
    /\ (pc = "echo" /\ blocked /\ pc' # pc) =>
          (pc' = "process" /\ trace' = <<<<"echo", 0>>>> /\ ~rxArmed')
    /\ (pc = "process" /\ pc' # pc) => trace = <<<<"echo", 0>>>>

Printable(c) == c >= SPACE /\ c <= TILDE

\* C13: in every state ucInputIndex is within 0 .. capacity, every position
\* of cInputString below ucInputIndex holds a printable character, and no
\* position of the buffer holds a control character: what is not printable
\* is the NUL that fills and ends the string.
C13_LineIsPrintable ==
    /\ ucInputIndex >= 0
    /\ ucInputIndex <= cmdMAX_INPUT_SIZE
    /\ \A i \in BufIndex : i < ucInputIndex => Printable(cInputString[i])
    /\ \A i \in BufIndex : cInputString[i] = 0 \/ Printable(cInputString[i])

\* The line is full, a further printable character and a control character
\* have been received and processed.
C13_Witness ==
    pc = "arm" /\ ucInputIndex = cmdMAX_INPUT_SIZE /\ overfull /\ cRxedChar = 7
        /\ \A i \in BufIndex : cInputString[i] \in {65, 97}

\* C14: after the last chunk of a dispatch (a repeat included) and before
\* the trailer is sent, cLastInputString holds the string that was just
\* dispatched, ucInputIndex is 0 and every position of cInputString is zero.
C14_RememberedAndCleared ==
    pc = "trailer" =>
        /\ ucInputIndex = 0
        /\ cInputString = ZeroBuffer
        /\ \A junk \in Junk : ReadString(cLastInputString, junk) = line

\* C14, the part that holds for every line: the input line is cleared.
C14_Cleared ==
    pc = "trailer" => (ucInputIndex = 0 /\ cInputString = ZeroBuffer)

\* C14, while no string operation has left a buffer, where the claim holds.
C14_RememberedWithinBounds ==
    (pc = "trailer" /\ ~oobRead /\ ~oobWrite) =>
        /\ ucInputIndex = 0
        /\ cInputString = ZeroBuffer
        /\ \A junk \in Junk : ReadString(cLastInputString, junk) = line

\* A step that is not one of the worker: the interrupt context has run.
InterruptStep == pc' = pc /\ blocked' = blocked

\* C15: a step of the interrupt context leaves the line, its length, the
\* last line and the output buffer alone; it changes the Rx signal only by
\* giving it when the console's receive completes, and the Tx signal only
\* by giving it when the console's transmit completes, each leaving the
\* other signal alone; a completion of another UART changes no signal.
C15_CallbacksOnlyGiveOwnSignal ==
    [][InterruptStep =>
         /\ UNCHANGED <<ucInputIndex, cInputString, cLastInputString, pcOutputString,
                        xReturned>>
         /\ xRxCompleteSemaphore' # xRxCompleteSemaphore =>
               /\ xRxCompleteSemaphore' = 1
               /\ rxArmed /\ ~rxArmed'
               /\ xTxCompleteSemaphore' = xTxCompleteSemaphore
         /\ xTxCompleteSemaphore' # xTxCompleteSemaphore =>
               /\ xTxCompleteSemaphore' = 1
               /\ txBuf # "none" /\ txBuf' = "none"
               /\ xRxCompleteSemaphore' = xRxCompleteSemaphore
         /\ (rxArmed' = rxArmed /\ txBuf' = txBuf) => UNCHANGED sems]_vars

\* A completion of another UART was reported before the banner's transmit
\* completed: the worker still waits and neither signal is given.
C15_Witness ==
    foreign /\ pc = "welcome" /\ blocked /\ txBuf = "pcWelcomeMessage"
        /\ xTxCompleteSemaphore = 0 /\ xRxCompleteSemaphore = 0

\* A byte below ' ' or above '~' that is neither a terminator nor an erase key
OtherControl(c) == ~Printable(c) /\ c \notin {CR, LF, BS, cmdASCII_DEL}

\* C16: when the worker processes such a byte, the line, its length and the
\* last line stay as they are and no dispatch starts: the worker goes back
\* to arming the receive and the interpreter is not called.
C16_OtherControlIgnored ==
    [][(pc = "process" /\ OtherControl(cRxedChar) /\ pc' # pc) =>
         /\ pc' = "arm"
         /\ UNCHANGED <<ucInputIndex, cInputString, cLastInputString>>
         /\ UNCHANGED <<pcOutputString, xReturned, line, lastLine, nCalls, accepted>>]_vars

\* A byte above '~' has been processed after one printable character.
C16_Witness ==
    pc = "arm" /\ cRxedChar = 200 /\ ucInputIndex = 1 /\ cInputString[0] = 97
        /\ cInputString[1] = 0 /\ trace = <<<<"echo", 0>>, <<"edit", 0>>>>

\* No dispatch to an echo command is in progress.
NoDispatch == echoPc \in {"idle", "end"}

\* The calls echo-parameters makes for a line with the parameters params:
\* the header, one chunk per parameter, each with "more", and an empty chunk
\* with "no more".
ParameterEchoShape(log, params) ==
    /\ Len(log) = Len(params) + 2
    /\ log[1] = <<<<"The parameters were:">>, TRUE>>
    /\ \A i \in 1 .. Len(params) : log[i + 1] = <<<<i, params[i]>>, TRUE>>
    /\ log[Len(log)] = <<<< >>, FALSE>>

\* C17: the parameter cursor of each echo command is 0 whenever no dispatch
\* is in progress; a line dispatched twice gives the same chunks and answers
\* both times; echo-parameters with k parameters is called k+2 times and
\* echo-3-parameters 4 times.
C17_EchoCommandsIdempotent ==
    /\ NoDispatch => \A c \in EchoCommands : lParameterNumber[c] = 0
    /\ \A c \in EchoCommands : c # pxCommand => lParameterNumber[c] = 0
    /\ (echoPc = "end" /\ echoPrev # << >>) => echoLog = echoPrev
    /\ (echoPc = "end" /\ pxCommand = "echo-parameters") =>
          ParameterEchoShape(echoLog, pcCommandString)
    /\ (echoPc = "end" /\ pxCommand = "echo-3-parameters") =>
          /\ Len(echoLog) = 4
          /\ echoLog[1][1] = <<"The three parameters were:">>
          /\ \A i \in 1 .. 3 : echoLog[i + 1][1] = <<i, pcCommandString[i]>>
          /\ \A i \in 1 .. 4 : echoLog[i][2] = (i < 4)

\* A line with two parameters has been dispatched to echo-parameters a
\* second time.
C17_Witness ==
    echoPc = "end" /\ pxCommand = "echo-parameters" /\ pcCommandString = <<"a", "b">>
        /\ echoPrev # << >> /\ Len(echoLog) = 4

\* The worker is about to call prvSendBuffer with a length above 0.
AboutToTransmit == pc \in SendSites /\ ~blocked /\ MustTransmit(SendLength(pc))

\* C18: whenever prvSendBuffer starts a transmit the Tx signal is empty: no
\* completion of an earlier transmit is left in it, so that the signal the
\* call then takes is the completion of its own transmit.
C18_TxSignalEmptyAtTransmit ==
    AboutToTransmit => xTxCompleteSemaphore = 0

\* C18, while no wait of prvSendBuffer has ended by its timeout: the signal
\* is empty and no earlier transmit is still to complete.
C18_EmptyUnlessTimedOut ==
    (AboutToTransmit /\ ~timedOut) => (xTxCompleteSemaphore = 0 /\ txBuf = "none")

\* C19: with one completion for each armed receive, the Rx signal is given
\* only when a receive completes and only while it is empty; the worker
\* wakes up only by taking it, and each take finds exactly one character
\* stored in cRxedChar since the take before, which it leaves as stored.
C19_OneWakeupPerCharacter ==
    [][/\ (rxArmed /\ ~rxArmed') =>
             /\ xRxCompleteSemaphore = 0 /\ xRxCompleteSemaphore' = 1
             /\ rxStored = 0 /\ rxStored' = 1
       /\ (xRxCompleteSemaphore = 0 /\ xRxCompleteSemaphore' = 1) => (rxArmed /\ ~rxArmed')
       /\ (pc = "waitRx" /\ pc' # pc) =>
             /\ pc' = "echo"
             /\ xRxCompleteSemaphore = 1 /\ xRxCompleteSemaphore' = 0
             /\ ~rxArmed /\ rxStored = 1 /\ rxTaken' = 1
             /\ cRxedChar' = cRxedChar
       /\ (xRxCompleteSemaphore = 1 /\ xRxCompleteSemaphore' = 0) =>
             (pc = "waitRx" /\ pc' = "echo")]_vars

\* The worker has been woken by the second character of a line.
C19_Witness ==
    pc = "echo" /\ ~blocked /\ rxTaken = 1 /\ rxStored = 0 /\ xRxCompleteSemaphore = 0
        /\ cRxedChar = 97 /\ ucInputIndex = 1 /\ ~rxArmed

\* A terminator has been received and the repeat test is still to come.
AtTerminator == (pc = "process" /\ IsEndOfLine(cRxedChar)) \/ pc \in {"newline", "repeat"}

\* C20: when a terminator arrives at length 0 the input line is all zero,
\* whatever was typed and erased or ignored before, which is the state a
\* plain empty line is in; after the repeat test the input line holds the
\* copy of the last command and nothing else.
C20_RepeatDependsOnLengthOnly ==
    /\ (AtTerminator /\ ucInputIndex = 0) => cInputString = ZeroBuffer
    /\ (pc \in {"interpret", "chunk", "loop", "remember"} /\ ucInputIndex = 0) =>
          \E junk \in Junk :
              cInputString = strcpy(ZeroBuffer, ReadString(cLastInputString, junk))

\* A line of more than capacity characters was typed and erased again, and
\* its terminator has put the last command back into the input line.
C20_Witness ==
    pc = "interpret" /\ overfull /\ accepted = << >> /\ ucInputIndex = 0
        /\ cRxedChar = CR /\ lastLine = <<65>> /\ cInputString[0] = 65 /\ cInputString[1] = 0

====
